---- MODULE Spec2Model ----
(***************************************************************************)
(* The /analyze relay of fitness-backend: src/server.js (catalog fetch     *)
(* with retry, model selection, generation call with retry, response       *)
(* extraction) and the earlier single-attempt handler src/unnamed/part_000.*)
(*                                                                         *)
(* Texts (JavaScript strings: response bodies, generated text) are         *)
(* sequences of lexemes.  A lexeme is a punctuation mark, a literal, a     *)
(* word, a whitespace character or a whole JSON string literal (carrying   *)
(* its decoded content, itself a text).  JSON.parse, the fence-stripping   *)
(* replace, trim and the brace match are computed on these sequences.      *)
(***************************************************************************)
EXTENDS Integers, Sequences, FiniteSets, TLC

----------------------------------------------------------------------------
(* Lexemes and texts *)

\* A one-character / one-word lexeme: "{", "}", "[", "]", ":", ",", " ",
\* "fence" (three backticks), "json", "null", "0", "5", "true", "false", "x" (any other word),
\* "\"" (a quote that opens a string literal never closed).
P(c) == [k |-> "p", c |-> c, s |-> <<>>]

\* A complete JSON string literal whose decoded content is the text s.
S(s) == [k |-> "str", c |-> "", s |-> s]

IsP(l, c) == l.k = "p" /\ l.c = c

IsWs(l) == IsP(l, " ")

\* A word as a text of one lexeme: the content of a key or of a short value.
W(c) == <<P(c)>>

----------------------------------------------------------------------------
(* JavaScript values *)

Undef == [t |-> "undefined", n |-> 0, s |-> <<>>, e |-> <<>>, m |-> <<>>]
Null == [t |-> "null", n |-> 0, s |-> <<>>, e |-> <<>>, m |-> <<>>]
Num(n) == [t |-> "number", n |-> n, s |-> <<>>, e |-> <<>>, m |-> <<>>]
Bool(b) == [t |-> "boolean", n |-> IF b THEN 1 ELSE 0, s |-> <<>>, e |-> <<>>, m |-> <<>>]
Str(s) == [t |-> "string", n |-> 0, s |-> s, e |-> <<>>, m |-> <<>>]
Arr(e) == [t |-> "array", n |-> 0, s |-> <<>>, e |-> e, m |-> <<>>]
Obj(m) == [t |-> "object", n |-> 0, s |-> <<>>, e |-> <<>>, m |-> m]

\* JavaScript truthiness of a value produced by JSON.parse or property access.
Truthy(v) ==
    CASE v.t = "undefined" -> FALSE
      [] v.t = "null" -> FALSE
      [] v.t = "number" -> v.n # 0
      [] v.t = "boolean" -> v.n = 1
      [] v.t = "string" -> v.s # <<>>
      [] OTHER -> TRUE

\* a || b
OrElse(a, b) == IF Truthy(a) THEN a ELSE b

RECURSIVE LastMember(_, _, _)
\* The value of the last member of m (first i entries) whose key is key.
LastMember(m, key, i) ==
    IF i = 0 THEN Undef
    ELSE IF m[i].k = key THEN m[i].v
    ELSE LastMember(m, key, i - 1)

\* v.key for a value that is neither null nor undefined.
GetProp(v, key) ==
    IF v.t = "object" THEN LastMember(v.m, key, Len(v.m)) ELSE Undef

\* v[0] for a value that is neither null nor undefined.
GetIndex0(v) ==
    CASE v.t = "array" -> IF Len(v.e) > 0 THEN v.e[1] ELSE Undef
      [] v.t = "string" -> IF Len(v.s) > 0 THEN Str(<<v.s[1]>>) ELSE Undef
      [] v.t = "object" -> LastMember(v.m, W("0"), Len(v.m))
      [] OTHER -> Undef

Nullish(v) == v.t \in {"undefined", "null"}

\* v?.key and v?.[0]
OptProp(v, key) == IF Nullish(v) THEN Undef ELSE GetProp(v, key)
OptIndex0(v) == IF Nullish(v) THEN Undef ELSE GetIndex0(v)

----------------------------------------------------------------------------
(* JSON.parse *)

ParseFail == [ok |-> FALSE, val |-> Undef, i |-> 0]
ParseOk(v, i) == [ok |-> TRUE, val |-> v, i |-> i]

RECURSIVE SkipWs(_, _)
\* The first position at or after i that holds no whitespace.
SkipWs(s, i) ==
    IF i <= Len(s) /\ IsWs(s[i]) THEN SkipWs(s, i + 1) ELSE i

RECURSIVE ParseValue(_, _), ParseMembers(_, _, _, _), ParseElements(_, _, _, _)
ParseValue(s, i) ==
    LET j == SkipWs(s, i) IN
    IF j > Len(s) THEN ParseFail
    ELSE LET l == s[j] IN
        CASE l.k = "str" -> ParseOk(Str(l.s), j + 1)
          [] IsP(l, "null") -> ParseOk(Null, j + 1)
          [] IsP(l, "0") -> ParseOk(Num(0), j + 1)
          [] IsP(l, "5") -> ParseOk(Num(5), j + 1)
          [] IsP(l, "true") -> ParseOk(Bool(TRUE), j + 1)
          [] IsP(l, "false") -> ParseOk(Bool(FALSE), j + 1)
          [] IsP(l, "{") -> ParseMembers(s, j + 1, <<>>, TRUE)
          [] IsP(l, "[") -> ParseElements(s, j + 1, <<>>, TRUE)
          [] OTHER -> ParseFail

\* The members of an object after its "{" (first) or after a ",".
ParseMembers(s, i, acc, first) ==
    LET j == SkipWs(s, i) IN
    IF j > Len(s) THEN ParseFail
    ELSE IF first /\ IsP(s[j], "}") THEN ParseOk(Obj(acc), j + 1)
    ELSE IF s[j].k # "str" THEN ParseFail
    ELSE LET c == SkipWs(s, j + 1) IN
        IF c > Len(s) \/ ~IsP(s[c], ":") THEN ParseFail
        ELSE LET v == ParseValue(s, c + 1) IN
            IF ~v.ok THEN ParseFail
            ELSE LET n == SkipWs(s, v.i)
                     acc2 == Append(acc, [k |-> s[j].s, v |-> v.val]) IN
                IF n > Len(s) THEN ParseFail
                ELSE IF IsP(s[n], ",") THEN ParseMembers(s, n + 1, acc2, FALSE)
                ELSE IF IsP(s[n], "}") THEN ParseOk(Obj(acc2), n + 1)
                ELSE ParseFail

\* The elements of an array after its "[" (first) or after a ",".
ParseElements(s, i, acc, first) ==
    LET j == SkipWs(s, i) IN
    IF j > Len(s) THEN ParseFail
    ELSE IF first /\ IsP(s[j], "]") THEN ParseOk(Arr(acc), j + 1)
    ELSE LET v == ParseValue(s, j) IN
        IF ~v.ok THEN ParseFail
        ELSE LET n == SkipWs(s, v.i)
                 acc2 == Append(acc, v.val) IN
            IF n > Len(s) THEN ParseFail
            ELSE IF IsP(s[n], ",") THEN ParseElements(s, n + 1, acc2, FALSE)
            ELSE IF IsP(s[n], "]") THEN ParseOk(Arr(acc2), n + 1)
            ELSE ParseFail

\* JSON.parse(s): ok = FALSE stands for the SyntaxError it throws.
JSONparse(s) ==
    LET r == ParseValue(s, 1) IN
    IF r.ok /\ SkipWs(s, r.i) > Len(s) THEN r ELSE ParseFail

----------------------------------------------------------------------------
(* Response extraction: src/server.js 118-127, src/unnamed/part_000 94-103 *)

RECURSIVE DropLeadingWs(_)
\* \s* at the head of s consumed.
DropLeadingWs(s) ==
    IF s # <<>> /\ IsWs(Head(s)) THEN DropLeadingWs(Tail(s)) ELSE s

RECURSIVE DropTrailingWs(_)
DropTrailingWs(s) ==
    IF s # <<>> /\ IsWs(s[Len(s)]) THEN DropTrailingWs(SubSeq(s, 1, Len(s) - 1)) ELSE s

\* s.trim()
Trim(s) == DropTrailingWs(DropLeadingWs(s))

RECURSIVE StripFences(_)
\* s.replace(/```json\s*|```/g, ""): left to right, "```json" with the
\* whitespace after it, else "```" alone.
StripFences(s) ==
    IF s = <<>> THEN <<>>
    ELSE IF IsP(Head(s), "fence")
        THEN IF Len(s) >= 2 /\ IsP(s[2], "json")
            THEN StripFences(DropLeadingWs(Tail(Tail(s))))
            ELSE StripFences(Tail(s))
    ELSE <<Head(s)>> \o StripFences(Tail(s))

\* Positions of the "{" and "}" lexemes of s.
Opens(s) == {i \in 1..Len(s) : IsP(s[i], "{")}
Closes(s) == {i \in 1..Len(s) : IsP(s[i], "}")}
Min(A) == CHOOSE a \in A : \A b \in A : a <= b
Max(A) == CHOOSE a \in A : \A b \in A : a >= b

\* cleaned.match(/\{[\s\S]*\}/): the first "{" through the last "}".
HasJsonMatch(s) ==
    /\ Opens(s) # {}
    /\ \E j \in Closes(s) : j > Min(Opens(s))
JsonMatch(s) == SubSeq(s, Min(Opens(s)), Max(Closes(s)))

\* data.candidates?.[0]?.content?.parts?.[0]?.text, for data not null.
TextPath(data) ==
    OptProp(OptIndex0(OptProp(OptProp(OptIndex0(GetProp(data, W("candidates"))),
        W("content")), W("parts"))), W("text"))

\* The path without its default.
RawTextNoDefault(data) == TextPath(data)

\* const rawText = ... || ""
RawText(data) == OrElse(TextPath(data), Str(<<>>))

\* rawText.replace(...).trim()
Cleaned(rawText) == Trim(StripFences(rawText))

\* The cleaned text whatever it holds.
AnswerOfCleanedOnly(cleaned) == [ok |-> TRUE, val |-> Str(cleaned)]

\* jsonMatch ? JSON.parse(jsonMatch[0]).analysis || cleaned : cleaned
\* ok = FALSE: JSON.parse threw.
AnswerOf(cleaned) ==
    IF ~HasJsonMatch(cleaned) THEN [ok |-> TRUE, val |-> Str(cleaned)]
    ELSE LET inner == JSONparse(JsonMatch(cleaned)) IN
        IF ~inner.ok THEN [ok |-> FALSE, val |-> Undef]
        ELSE [ok |-> TRUE,
              val |-> OrElse(GetProp(inner.val, W("analysis")), Str(cleaned))]

\* The value of aiAnswer after the try/catch around the parse of text.
\* Anything thrown inside (SyntaxError of either JSON.parse, TypeError of
\* null.candidates or of a rawText without replace) leaves the raw text.
ExtractAnswer(text) ==
    LET data == JSONparse(text) IN
    IF ~data.ok \/ data.val.t = "null" THEN Str(text)
    ELSE LET rawText == RawText(data.val) IN
        IF rawText.t # "string" THEN Str(text)
        ELSE LET a == AnswerOf(Cleaned(rawText.s)) IN
            IF a.ok THEN a.val ELSE Str(text)

----------------------------------------------------------------------------
(* Bounds and program constants *)

\* Longest model list a catalog response carries.
MaxModels == 2

\* getModels(2): retries after the first catalog attempt.
retries == 2

\* A generation retry budget one short of the catalog's.
maxAttemptsOne == retries - 1

\* const maxAttempts = 2: retries after the first generation attempt.
maxAttempts == 2

----------------------------------------------------------------------------
(* The upstream catalog: what GET /v1/models may answer *)

\* supportedGenerationMethods arrays a descriptor may carry.
MethodArrays ==
    { <<>>, <<"generateContent">>, <<"generateText">>, <<"embedContent">>,
      <<"generateContent", "generateText">>, <<"embedContent", "generateText">>,
      <<"embedContent", "generateContent">> }

\* An element of the "models" array: null, a descriptor without
\* supportedGenerationMethods, or a descriptor with one of MethodArrays.
DescriptorKinds ==
    {[isNull |-> TRUE, has |-> FALSE, methods |-> <<>>],
     [isNull |-> FALSE, has |-> FALSE, methods |-> <<>>]}
    \cup {[isNull |-> FALSE, has |-> TRUE, methods |-> ms] : ms \in MethodArrays}

ModelLists == UNION {[1..n -> DescriptorKinds] : n \in 0..MaxModels}

ModelName(i) == W("m" \o ToString(i))

RECURSIVE CommaSeparated(_)
\* The texts of ts joined by ",".
CommaSeparated(ts) ==
    IF ts = <<>> THEN <<>>
    ELSE IF Len(ts) = 1 THEN ts[1]
    ELSE ts[1] \o <<P(",")>> \o CommaSeparated(Tail(ts))

\* The JSON text of the i-th element of the models array.
ElementText(i, d) ==
    IF d.isNull THEN <<P("null")>>
    ELSE <<P("{"), S(W("name")), P(":"), S(ModelName(i))>>
         \o (IF d.has
             THEN <<P(","), S(W("supportedGenerationMethods")), P(":"), P("[")>>
                  \o CommaSeparated([j \in 1..Len(d.methods) |-> <<S(W(d.methods[j]))>>])
                  \o <<P("]")>>
             ELSE <<>>)
         \o <<P("}")>>

\* { "models": [ ... ] }
CatalogText(list) ==
    <<P("{"), S(W("models")), P(":"), P("[")>>
    \o CommaSeparated([i \in 1..Len(list) |-> ElementText(i, list[i])])
    \o <<P("]"), P("}")>>

\* 2xx bodies that are no catalog: an empty body (also a body stream that
\* fails while res.json() reads it), an HTML page, null, an object without
\* "models", "models" null, an object, a string.
MalformedCatalogBodies ==
    { <<>>,
      <<P("x")>>,
      <<P("null")>>,
      <<P("{"), P("}")>>,
      <<P("{"), S(W("models")), P(":"), P("null"), P("}")>>,
      <<P("{"), S(W("models")), P(":"), P("{"), P("}"), P("}")>>,
      <<P("{"), S(W("models")), P(":"), S(W("x")), P("}")>> }

\* Every catalog body with a model list of at most MaxModels elements.
AllCatalogBodies == {CatalogText(l) : l \in ModelLists} \cup MalformedCatalogBodies

Kind(ms) == [isNull |-> FALSE, has |-> TRUE, methods |-> ms]
NoMethods == [isNull |-> FALSE, has |-> FALSE, methods |-> <<>>]
NullElement == [isNull |-> TRUE, has |-> FALSE, methods |-> <<>>]

\* The model lists the whole handler is run on: empty, one usable model of
\* either method, unusable ones, a usable one behind an unusable one, a
\* GenerateText one ahead of a GenerateContent one, a null element.
HandlerLists ==
    { <<>>,
      <<Kind(<<"generateContent">>)>>,
      <<Kind(<<"generateText">>)>>,
      <<Kind(<<"embedContent">>)>>,
      <<NoMethods>>,
      <<Kind(<<"embedContent">>), Kind(<<"embedContent", "generateText">>)>>,
      <<Kind(<<"generateText">>), Kind(<<"generateContent">>)>>,
      <<NullElement>>,
      <<Kind(<<"generateContent">>), NullElement>> }

CatalogBodies == {CatalogText(l) : l \in HandlerLists} \cup MalformedCatalogBodies

CatStatuses == {200, 500}

\* res.ok / response.ok
Ok(status) == status >= 200 /\ status <= 299

----------------------------------------------------------------------------
(* getModels: the body of a 2xx catalog response, src/server.js 45-51 *)

\* data.models.map(m => m.name) throws on a null element.
NamesThrow(e) == \E i \in 1..Len(e) : Nullish(e[i])

\* The shape check without Array.isArray.
GetModelsBodyNoArrayCheck(b) ==
    LET data == JSONparse(b) IN
    IF ~data.ok \/ Nullish(data.val) THEN [ok |-> FALSE, models |-> <<>>]
    ELSE LET ms == GetProp(data.val, W("models")) IN
        IF ~Truthy(ms) THEN [ok |-> FALSE, models |-> <<>>]
        ELSE IF NamesThrow(ms.e) THEN [ok |-> FALSE, models |-> <<>>]
        ELSE [ok |-> TRUE, models |-> ms.e]

\* ok = FALSE: something was thrown inside the try (res.json() rejected,
\* data is null, the shape check threw, the log of the names threw).
GetModelsBody(b) ==
    LET data == JSONparse(b) IN
    IF ~data.ok \/ Nullish(data.val) THEN [ok |-> FALSE, models |-> <<>>]
    ELSE LET ms == GetProp(data.val, W("models")) IN
        IF ~Truthy(ms) \/ ms.t # "array" THEN [ok |-> FALSE, models |-> <<>>]
        ELSE IF NamesThrow(ms.e) THEN [ok |-> FALSE, models |-> <<>>]
        ELSE [ok |-> TRUE, models |-> ms.e]

----------------------------------------------------------------------------
(* Model selection: src/server.js 71-78, src/unnamed/part_000 52-76 *)

GenerateContent == Str(W("generateContent"))
GenerateText == Str(W("generateText"))

\* a.includes(x) for an array value a.
Includes(a, x) == \E i \in 1..Len(a.e) : a.e[i] = x

\* m.supportedGenerationMethods?.some(method =>
\*   ["generateContent", "generateText"].includes(method))
\* threw: m is null (property of null), or the field is there and no array.
Supports(m) ==
    IF Nullish(m) THEN [threw |-> TRUE, val |-> FALSE]
    ELSE LET sgm == GetProp(m, W("supportedGenerationMethods")) IN
        IF Nullish(sgm) THEN [threw |-> FALSE, val |-> FALSE]
        ELSE IF sgm.t # "array" THEN [threw |-> TRUE, val |-> FALSE]
        ELSE [threw |-> FALSE,
              val |-> \E i \in 1..Len(sgm.e) : sgm.e[i] \in {GenerateContent, GenerateText}]

RECURSIVE FindFrom(_, _)
\* models.find(...) scanning from position i.
FindFrom(ms, i) ==
    IF i > Len(ms) THEN [threw |-> FALSE, found |-> FALSE, m |-> Undef]
    ELSE LET p == Supports(ms[i]) IN
        IF p.threw THEN [threw |-> TRUE, found |-> FALSE, m |-> Undef]
        ELSE IF p.val THEN [threw |-> FALSE, found |-> TRUE, m |-> ms[i]]
        ELSE FindFrom(ms, i + 1)

RECURSIVE FindLastFrom(_, _)
\* A scan that keeps the last match instead of the first.
FindLastFrom(ms, i) ==
    IF i < 1 THEN [threw |-> FALSE, found |-> FALSE, m |-> Undef]
    ELSE LET p == Supports(ms[i]) IN
        IF p.threw THEN [threw |-> TRUE, found |-> FALSE, m |-> Undef]
        ELSE IF p.val THEN [threw |-> FALSE, found |-> TRUE, m |-> ms[i]]
        ELSE FindLastFrom(ms, i - 1)

FindSuitableLast(ms) ==
    IF \E i \in 1..Len(ms) : Supports(ms[i]).threw
    THEN [threw |-> TRUE, found |-> FALSE, m |-> Undef]
    ELSE FindLastFrom(ms, Len(ms))

\* const suitableModel = models.find(...)
FindSuitable(ms) == FindFrom(ms, 1)

\* The ternary with its branches swapped.
MethodNameSwapped(m) ==
    IF Includes(GetProp(m, W("supportedGenerationMethods")), GenerateContent)
    THEN "generateText" ELSE "generateContent"

\* const methodName = suitableModel.supportedGenerationMethods
\*   .includes("generateContent") ? "generateContent" : "generateText"
MethodNameOf(m) ==
    IF Includes(GetProp(m, W("supportedGenerationMethods")), GenerateContent)
    THEN "generateContent" ELSE "generateText"

----------------------------------------------------------------------------
(* The upstream generation endpoint: what POST :generateContent may answer *)

GenStatuses == {200, 500, 503}

\* { "candidates": [ { "content": { "parts": [ { "text": v } ] } } ] }
Wrap(v) ==
    <<P("{"), S(W("candidates")), P(":"), P("["), P("{"), S(W("content")), P(":"),
      P("{"), S(W("parts")), P(":"), P("["), P("{"), S(W("text")), P(":"), v,
      P("}"), P("]"), P("}"), P("}"), P("]"), P("}")>>

\* {"analysis": v}
AnalysisObject(v) == <<P("{"), S(W("analysis")), P(":"), v, P("}")>>

\* The advice the model was asked for.
Tip == W("tip")

\* 2xx bodies the handler is run on: a clean analysis object, the same in a
\* json fence, prose, prose around an object cut off inside a string before
\* a later "}", an empty analysis, an object with another key, bodies
\* without the text path, and bodies that are no JSON object.
GenBodies ==
    { Wrap(S(AnalysisObject(S(Tip)))),
      Wrap(S(<<P("fence"), P("json"), P(" ")>> \o AnalysisObject(S(Tip))
             \o <<P(" "), P("fence")>>)),
      Wrap(S(<<P("x"), P(" "), P("x")>>)),
      Wrap(S(<<P("x"), P(" "), P("{"), S(W("analysis")), P(":"), P("\""), P("x"),
               P(" "), P("}")>>)),
      Wrap(S(AnalysisObject(S(<<>>)))),
      Wrap(S(<<P("{"), S(W("other")), P(":"), S(Tip), P("}")>>)),
      <<P("{"), P("}")>>,
      <<P("{"), S(W("candidates")), P(":"), P("["), P("]"), P("}")>>,
      <<P("null")>>,
      <<P("5")>>,
      <<P("x")>>,
      <<P("{"), S(W("candidates")), P(":")>> }

\* Bodies of non-2xx answers: a plain message, a JSON error object.
ErrorBodies ==
    { <<P("x")>>, <<P("{"), S(W("error")), P(":"), S(W("x")), P("}")>> }

----------------------------------------------------------------------------
(* State *)

VARIABLES
    file,           \* the file that serves /analyze: "server.js" or "part_000"
    pc,             \* per request: where its handler is suspended
    reqBody,        \* req.body: userData, exerciseData
    catAttempt,     \* getModels: attempt
    catRes,         \* getModels: res.status of the attempt in hand
    catBody,        \* getModels: the body res.json() read last
    models,         \* what getModels returned (an array value)
    suitableModel,
    methodName,
    promptText,
    attempt,        \* generation loop: attempt
    response,       \* response.status of the generation attempt in hand
    text,           \* await response.text()
    aiAnswer,
    sent,           \* what was written to the Express res, in order
    armed,          \* the timeout timer of the attempt in hand is pending
    stale,          \* timers of finished attempts never cleared, still pending
    trace           \* upstream calls, backoff waits and responses, in order

catVars == <<catAttempt, catRes, catBody, models>>
selVars == <<suitableModel, methodName, promptText>>
genVars == <<attempt, response, text, aiAnswer>>
vars == <<file, pc, reqBody, catAttempt, catRes, catBody, models, suitableModel, methodName,
          promptText, attempt, response, text, aiAnswer, sent, armed, stale, trace>>

Upd(f, r, v) == [f EXCEPT ![r] = v]

\* userData / exerciseData of req.body: absent, null, or a record.
InputValues == {Undef, Null, Obj(<<[k |-> W("age"), v |-> Num(5)]>>)}

NoPrompt == [userData |-> Undef, exerciseData |-> Undef]
NoUrl == [model |-> Undef, method |-> ""]

\* Trace entries: "GET" and "POST" (an upstream call is issued), "answer"
\* (the attempt got a status and its body was dealt with; note tells a 2xx
\* catalog body that was taken, "models", from one that was not, "invalid"),
\* "timeout" (the attempt was aborted by its timer), "error" (fetch or the
\* body read rejected), "wait" (a backoff wait starts), "respond".
Ev(op) == [op |-> op, status |-> 0, note |-> "", url |-> NoUrl, body |-> NoPrompt]
PostEv(url, prompt) ==
    [op |-> "POST", status |-> 0, note |-> "", url |-> url, body |-> prompt]
AnswerEv(status, note) ==
    [op |-> "answer", status |-> status, note |-> note, url |-> NoUrl, body |-> NoPrompt]

\* res.status(status).json({ error, details }) / res.json({ aiAnswer })
ErrorResponse(status, error, details) ==
    [status |-> status, error |-> error, details |-> details, aiAnswer |-> Undef]
SuccessResponse(answer) ==
    [status |-> 200, error |-> "", details |-> Undef, aiAnswer |-> answer]

\* err.name and err.message of what fetch or a body read rejects with.
AbortError == [name |-> "AbortError", message |-> Str(W("aborted"))]
FetchError == [name |-> "FetchError", message |-> Str(W("ECONNRESET"))]
TypeError == [name |-> "TypeError", message |-> Str(W("TypeError"))]

\* The prompt embeds JSON.stringify of both inputs in a fixed template.
BuildPrompt(b) == [userData |-> b.userData, exerciseData |-> b.exerciseData]

\* apiUrl: .../v1/${suitableModel.name}:${methodName}
ApiUrl(m, method) == [model |-> GetProp(m, W("name")), method |-> method]

InitRequests(R) ==
    /\ pc = [r \in R |-> "idle"]
    /\ reqBody = [r \in R |-> NoPrompt]
    /\ catAttempt = [r \in R |-> 0]
    /\ catRes = [r \in R |-> 0]
    /\ catBody = [r \in R |-> <<>>]
    /\ models = [r \in R |-> Undef]
    /\ suitableModel = [r \in R |-> Undef]
    /\ methodName = [r \in R |-> ""]
    /\ promptText = [r \in R |-> NoPrompt]
    /\ attempt = [r \in R |-> 0]
    /\ response = [r \in R |-> 0]
    /\ text = [r \in R |-> <<>>]
    /\ aiAnswer = [r \in R |-> Str(W("No response from AI"))]
    /\ sent = [r \in R |-> <<>>]
    /\ armed = [r \in R |-> FALSE]
    /\ stale = [r \in R |-> 0]
    /\ trace = [r \in R |-> <<>>]

Init ==
    /\ file \in {"server.js", "part_000"}
    /\ InitRequests({1})

----------------------------------------------------------------------------
(* src/server.js: app.post("/analyze") and getModels *)

\* return res.status(...).json(...): the handler ends here.
\* how: what the step that ends here adds to the trace first.
Respond(r, how, resp) ==
    /\ sent' = Upd(sent, r, Append(sent[r], resp))
    /\ pc' = Upd(pc, r, "done")
    /\ trace' = Upd(trace, r, trace[r] \o how \o <<Ev("respond")>>)

\* await new Promise(r => setTimeout(r, 2000))
Backoff(r, how, at) ==
    /\ pc' = Upd(pc, r, at)
    /\ trace' = Upd(trace, r, trace[r] \o how \o <<Ev("wait")>>)
    /\ UNCHANGED sent

\* Validation with the exerciseData check dropped.
MissingInputUserOnly(u, e) == ~Truthy(u)

\* if (!userData || !exerciseData)
MissingInput(u, e) == ~Truthy(u) \/ ~Truthy(e)

\* server.js 61-68, 29-37: validation, then the first catalog GET.
Analyze(r) ==
    /\ file = "server.js"
    /\ pc[r] = "idle"
    /\ \E u \in InputValues, e \in InputValues :
        /\ reqBody' = Upd(reqBody, r, [userData |-> u, exerciseData |-> e])
        /\ IF MissingInput(u, e)
           THEN /\ Respond(r, <<>>, ErrorResponse(400, "Missing userData or exerciseData", Undef))
                /\ UNCHANGED <<catAttempt, armed>>
           ELSE /\ catAttempt' = Upd(catAttempt, r, 1)
                /\ armed' = Upd(armed, r, TRUE)
                /\ pc' = Upd(pc, r, "cat_fetch")
                /\ trace' = Upd(trace, r, Append(trace[r], Ev("GET")))
                /\ UNCHANGED sent
    /\ UNCHANGED <<file, catRes, catBody, models, selVars, genVars, stale>>

\* The catch of getModels with its budget test one attempt late.
CatCatchLate(r, how) ==
    IF catAttempt[r] > retries + 1
    THEN /\ models' = Upd(models, r, Arr(<<>>))
         /\ Respond(r, how, ErrorResponse(500, "No models available from Gemini API", Undef))
    ELSE /\ Backoff(r, how, "cat_backoff")
         /\ UNCHANGED models

\* The catch of getModels with its budget test one attempt early.
CatCatchEarly(r, how) ==
    IF catAttempt[r] >= retries
    THEN /\ models' = Upd(models, r, Arr(<<>>))
         /\ Respond(r, how, ErrorResponse(500, "No models available from Gemini API", Undef))
    ELSE /\ Backoff(r, how, "cat_backoff")
         /\ UNCHANGED models

\* server.js 52-56 and, when getModels returns [], 68-69.
CatCatch(r, how) ==
    IF catAttempt[r] > retries
    THEN /\ models' = Upd(models, r, Arr(<<>>))
         /\ Respond(r, how, ErrorResponse(500, "No models available from Gemini API", Undef))
    ELSE /\ Backoff(r, how, "cat_backoff")
         /\ UNCHANGED models

\* server.js 37-40: fetch resolved with the status line; the timer is cleared.
CatFetchResolves(r) ==
    /\ pc[r] = "cat_fetch"
    /\ \E status \in CatStatuses :
        /\ catRes' = Upd(catRes, r, status)
        /\ pc' = Upd(pc, r, IF Ok(status) THEN "cat_json" ELSE "cat_text")
    /\ armed' = Upd(armed, r, FALSE)
    /\ UNCHANGED <<file, reqBody, catAttempt, catBody, models, selVars, genVars, sent, stale, trace>>

\* server.js 37, 52: fetch rejected (transport); clearTimeout is skipped.
CatFetchRejects(r) ==
    /\ pc[r] = "cat_fetch"
    /\ armed[r]
    /\ armed' = Upd(armed, r, FALSE)
    /\ stale' = Upd(stale, r, stale[r] + 1)
    /\ CatCatch(r, <<Ev("error")>>)
    /\ UNCHANGED <<file, reqBody, catAttempt, catRes, catBody, selVars, genVars>>

\* server.js 35, 52: the timer fired, the fetch was aborted.
CatTimeout(r) ==
    /\ pc[r] = "cat_fetch"
    /\ armed[r]
    /\ armed' = Upd(armed, r, FALSE)
    /\ CatCatch(r, <<Ev("timeout")>>)
    /\ UNCHANGED <<file, reqBody, catAttempt, catRes, catBody, selVars, genVars, stale>>

\* server.js 40-43: the body of a non-2xx answer was read (or its read
\* failed); either way an Error is thrown.
CatText(r) ==
    /\ pc[r] = "cat_text"
    /\ CatCatch(r, <<AnswerEv(catRes[r], "")>>)
    /\ UNCHANGED <<file, reqBody, catAttempt, catRes, catBody, selVars, genVars, armed, stale>>

\* The outer catch, server.js 141-144.
FailedToAnalyze(err) ==
    ErrorResponse(500, "Failed to analyze data", err.message)

\* server.js 69-106, once getModels has returned ms: the empty check, the
\* selection, the prompt and the first generation POST.
SelectAndDispatch(r, ms) ==
    LET f == FindSuitable(ms)
        how == <<AnswerEv(catRes[r], "models")>> IN
    /\ models' = Upd(models, r, Arr(ms))
    /\ IF Len(ms) = 0
       THEN /\ Respond(r, how, ErrorResponse(500, "No models available from Gemini API", Undef))
            /\ UNCHANGED <<selVars, attempt, armed>>
       ELSE IF f.threw
       THEN /\ Respond(r, how, FailedToAnalyze(TypeError))
            /\ UNCHANGED <<selVars, attempt, armed>>
       ELSE IF ~f.found
       THEN /\ Respond(r, how, ErrorResponse(500, "No suitable Gemini model found", Undef))
            /\ UNCHANGED <<selVars, attempt, armed>>
       ELSE /\ suitableModel' = Upd(suitableModel, r, f.m)
            /\ methodName' = Upd(methodName, r, MethodNameOf(f.m))
            /\ promptText' = Upd(promptText, r, BuildPrompt(reqBody[r]))
            /\ attempt' = Upd(attempt, r, 1)
            /\ armed' = Upd(armed, r, TRUE)
            /\ pc' = Upd(pc, r, "gen_fetch")
            /\ trace' = Upd(trace, r, trace[r] \o how \o
                    <<PostEv(ApiUrl(f.m, MethodNameOf(f.m)), BuildPrompt(reqBody[r]))>>)
            /\ UNCHANGED sent

\* server.js 45-51: the body of a 2xx catalog answer was read.
CatJsonFrom(r, bodies) ==
    /\ pc[r] = "cat_json"
    /\ \E b \in bodies :
        LET got == GetModelsBody(b) IN
        /\ catBody' = Upd(catBody, r, b)
        /\ IF got.ok
           THEN SelectAndDispatch(r, got.models)
           ELSE /\ CatCatch(r, <<AnswerEv(catRes[r], "invalid")>>)
                /\ UNCHANGED <<selVars, attempt, armed>>
    /\ UNCHANGED <<file, reqBody, catAttempt, catRes, response, text, aiAnswer, stale>>

CatJson(r) == CatJsonFrom(r, CatalogBodies)

\* server.js 55, 32-37: the backoff wait is over; attempt++, the loop test,
\* the next GET.  Past the loop getModels returns undefined and
\* models.length throws into the outer catch.
CatBackoff(r) ==
    /\ pc[r] = "cat_backoff"
    /\ catAttempt' = Upd(catAttempt, r, catAttempt[r] + 1)
    /\ IF catAttempt[r] + 1 <= retries + 1
       THEN /\ armed' = Upd(armed, r, TRUE)
            /\ pc' = Upd(pc, r, "cat_fetch")
            /\ trace' = Upd(trace, r, Append(trace[r], Ev("GET")))
            /\ UNCHANGED sent
       ELSE /\ Respond(r, <<>>, FailedToAnalyze(TypeError))
            /\ UNCHANGED armed
    /\ UNCHANGED <<file, reqBody, catRes, catBody, models, selVars, genVars, stale>>

\* The catch without its return: it waits after the last attempt too.
GenCatchNoReturn(r, how, err) == Backoff(r, how, "gen_backoff")

\* The catch with its budget test one attempt early.
GenCatchEarly(r, how, err) ==
    IF attempt[r] >= maxAttempts
    THEN Respond(r, how, ErrorResponse(504, "Gemini API request failed after retries",
                                       err.message))
    ELSE Backoff(r, how, "gen_backoff")

\* server.js 132-138: the catch of the generation loop.
GenCatchOuter(r, how, err) ==
    IF attempt[r] > maxAttempts
    THEN Respond(r, how, FailedToAnalyze(err))
    ELSE Backoff(r, how, "gen_backoff")

GenCatch(r, how, err) ==
    IF attempt[r] > maxAttempts
    THEN Respond(r, how, ErrorResponse(504, "Gemini API request failed after retries",
                                       err.message))
    ELSE Backoff(r, how, "gen_backoff")

\* server.js 101-109: fetch resolved with the status line; the timer is cleared.
GenFetchResolves(r) ==
    /\ pc[r] = "gen_fetch"
    /\ \E status \in GenStatuses : response' = Upd(response, r, status)
    /\ armed' = Upd(armed, r, FALSE)
    /\ pc' = Upd(pc, r, "gen_text")
    /\ UNCHANGED <<file, reqBody, catVars, selVars, attempt, text, aiAnswer, sent, stale, trace>>

\* server.js 101, 132: fetch rejected (transport); clearTimeout is skipped.
GenFetchRejects(r) ==
    /\ pc[r] = "gen_fetch"
    /\ armed[r]
    /\ armed' = Upd(armed, r, FALSE)
    /\ stale' = Upd(stale, r, stale[r] + 1)
    /\ GenCatch(r, <<Ev("error")>>, FetchError)
    /\ UNCHANGED <<file, reqBody, catVars, selVars, genVars>>

\* server.js 99, 132: the timer fired, the fetch was aborted.
GenTimeout(r) ==
    /\ pc[r] = "gen_fetch"
    /\ armed[r]
    /\ armed' = Upd(armed, r, FALSE)
    /\ GenCatch(r, <<Ev("timeout")>>, AbortError)
    /\ UNCHANGED <<file, reqBody, catVars, selVars, genVars, stale>>

\* The handler without the try/catch around the parse: a body that is no
\* JSON throws into the catch of the attempt.
GenTextFromUnguarded(r, bodies) ==
    /\ pc[r] = "gen_text"
    /\ \E t \in (IF Ok(response[r]) THEN bodies ELSE ErrorBodies) :
        /\ text' = Upd(text, r, t)
        /\ IF ~Ok(response[r])
           THEN /\ IF attempt[r] > maxAttempts
                   THEN Respond(r, <<AnswerEv(response[r], "")>>,
                                ErrorResponse(response[r],
                                    "Gemini API returned an error", Str(t)))
                   ELSE Backoff(r, <<AnswerEv(response[r], "")>>, "gen_backoff")
                /\ UNCHANGED aiAnswer
           ELSE IF ~JSONparse(t).ok
           THEN /\ GenCatch(r, <<AnswerEv(response[r], "")>>,
                            [name |-> "SyntaxError", message |-> Str(W("SyntaxError"))])
                /\ UNCHANGED aiAnswer
           ELSE /\ aiAnswer' = Upd(aiAnswer, r, ExtractAnswer(t))
                /\ Respond(r, <<AnswerEv(response[r], "")>>,
                           SuccessResponse(ExtractAnswer(t)))
    /\ UNCHANGED <<file, reqBody, catVars, selVars, attempt, response, armed, stale>>

\* server.js 109-130: the body was read.  Non-2xx: the last attempt answers
\* with the upstream status and body, an earlier one waits.  2xx: extraction
\* and the success response.
GenTextFrom(r, bodies) ==
    /\ pc[r] = "gen_text"
    /\ \E t \in (IF Ok(response[r]) THEN bodies ELSE ErrorBodies) :
        /\ text' = Upd(text, r, t)
        /\ IF ~Ok(response[r])
           THEN /\ IF attempt[r] > maxAttempts
                   THEN Respond(r, <<AnswerEv(response[r], "")>>,
                                ErrorResponse(response[r],
                                    "Gemini API returned an error", Str(t)))
                   ELSE Backoff(r, <<AnswerEv(response[r], "")>>, "gen_backoff")
                /\ UNCHANGED aiAnswer
           ELSE /\ aiAnswer' = Upd(aiAnswer, r, ExtractAnswer(t))
                /\ Respond(r, <<AnswerEv(response[r], "")>>,
                           SuccessResponse(ExtractAnswer(t)))
    /\ UNCHANGED <<file, reqBody, catVars, selVars, attempt, response, armed, stale>>

GenText(r) == GenTextFrom(r, GenBodies)

\* server.js 109, 132: reading the body failed; the timer is already cleared.
GenTextRejects(r) ==
    /\ pc[r] = "gen_text"
    /\ GenCatch(r, <<Ev("error")>>, FetchError)
    /\ UNCHANGED <<file, reqBody, catVars, selVars, genVars, armed, stale>>

\* A retry that falls back on the other generation method.
GenBackoffOtherMethod(r) ==
    /\ pc[r] = "gen_backoff"
    /\ attempt' = Upd(attempt, r, attempt[r] + 1)
    /\ IF attempt[r] + 1 <= maxAttempts + 1
       THEN /\ armed' = Upd(armed, r, TRUE)
            /\ pc' = Upd(pc, r, "gen_fetch")
            /\ trace' = Upd(trace, r, Append(trace[r],
                    PostEv(ApiUrl(suitableModel[r], "generateText"), promptText[r])))
       ELSE /\ pc' = Upd(pc, r, "done")
            /\ UNCHANGED <<armed, trace>>
    /\ UNCHANGED <<file, reqBody, catVars, selVars, response, text, aiAnswer, sent, stale>>

\* A retry that runs the whole pipeline again, from the catalog GET.
GenBackoffRefetch(r) ==
    /\ pc[r] = "gen_backoff"
    /\ attempt' = Upd(attempt, r, attempt[r] + 1)
    /\ IF attempt[r] + 1 <= maxAttempts + 1
       THEN /\ armed' = Upd(armed, r, TRUE)
            /\ pc' = Upd(pc, r, "cat_fetch")
            /\ trace' = Upd(trace, r, Append(trace[r], Ev("GET")))
       ELSE /\ pc' = Upd(pc, r, "done")
            /\ UNCHANGED <<armed, trace>>
    /\ UNCHANGED <<file, reqBody, catVars, selVars, response, text, aiAnswer, sent, stale>>

\* server.js 114-115, 137, 96-106: the backoff wait is over; attempt++, the
\* loop test, the next POST.  Past the loop the handler ends without a
\* response.
GenBackoffSharedAttempt(r) ==
    /\ pc[r] = "gen_backoff"
    /\ attempt' = [x \in DOMAIN attempt |-> attempt[r] + 1]
    /\ IF attempt[r] + 1 <= maxAttempts + 1
       THEN /\ armed' = Upd(armed, r, TRUE)
            /\ pc' = Upd(pc, r, "gen_fetch")
            /\ trace' = Upd(trace, r, Append(trace[r],
                    PostEv(ApiUrl(suitableModel[r], methodName[r]), promptText[r])))
       ELSE /\ pc' = Upd(pc, r, "done")
            /\ UNCHANGED <<armed, trace>>
    /\ UNCHANGED <<file, reqBody, catVars, selVars, response, text, aiAnswer, sent, stale>>

GenBackoff(r) ==
    /\ pc[r] = "gen_backoff"
    /\ attempt' = Upd(attempt, r, attempt[r] + 1)
    /\ IF attempt[r] + 1 <= maxAttempts + 1
       THEN /\ armed' = Upd(armed, r, TRUE)
            /\ pc' = Upd(pc, r, "gen_fetch")
            /\ trace' = Upd(trace, r, Append(trace[r],
                    PostEv(ApiUrl(suitableModel[r], methodName[r]), promptText[r])))
       ELSE /\ pc' = Upd(pc, r, "done")
            /\ UNCHANGED <<armed, trace>>
    /\ UNCHANGED <<file, reqBody, catVars, selVars, response, text, aiAnswer, sent, stale>>

\* A timer left pending by a rejected fetch fires: controller.abort() on a
\* fetch that is over, nothing else.
StaleTimerFires(r) ==
    /\ stale[r] > 0
    /\ stale' = Upd(stale, r, stale[r] - 1)
    /\ UNCHANGED <<file, pc, reqBody, catVars, selVars, genVars, sent, armed, trace>>

----------------------------------------------------------------------------
(* src/unnamed/part_000: the single-attempt handler, no timers, no retries *)

\* part_000 107-110: the outer catch answers without details.
OldFailed == ErrorResponse(500, "Failed to analyze data", Undef)

\* part_000 52-84, once getModels has returned the value v: the selection,
\* the prompt and the generation POST.  find on a value that is no array,
\* or over a null element, throws into the outer catch.
OldSelectAndDispatch(r, how, v) ==
    LET f == FindSuitable(v.e) IN
    /\ models' = Upd(models, r, v)
    /\ IF v.t # "array" \/ f.threw
       THEN /\ Respond(r, how, OldFailed)
            /\ UNCHANGED selVars
       ELSE IF ~f.found
       THEN /\ Respond(r, how, ErrorResponse(500, "No suitable Gemini model found", Undef))
            /\ UNCHANGED selVars
       ELSE /\ suitableModel' = Upd(suitableModel, r, f.m)
            /\ methodName' = Upd(methodName, r, MethodNameOf(f.m))
            /\ promptText' = Upd(promptText, r, BuildPrompt(reqBody[r]))
            /\ pc' = Upd(pc, r, "old_gen_fetch")
            /\ trace' = Upd(trace, r, trace[r] \o how \o
                    <<PostEv(ApiUrl(f.m, MethodNameOf(f.m)), BuildPrompt(reqBody[r]))>>)
            /\ UNCHANGED sent

\* part_000 42-49, 27-30: validation, then the catalog GET.
OldAnalyze(r) ==
    /\ file = "part_000"
    /\ pc[r] = "idle"
    /\ \E u \in InputValues, e \in InputValues :
        /\ reqBody' = Upd(reqBody, r, [userData |-> u, exerciseData |-> e])
        /\ IF MissingInput(u, e)
           THEN Respond(r, <<>>, ErrorResponse(400, "Missing userData or exerciseData", Undef))
           ELSE /\ pc' = Upd(pc, r, "old_cat_fetch")
                /\ trace' = Upd(trace, r, Append(trace[r], Ev("GET")))
                /\ UNCHANGED sent
    /\ UNCHANGED <<file, catVars, selVars, genVars, armed, stale>>

\* part_000 30-32, 35-38: fetch resolved; a non-2xx status throws and
\* getModels returns [].
OldCatFetchResolves(r) ==
    /\ pc[r] = "old_cat_fetch"
    /\ \E status \in CatStatuses :
        /\ catRes' = Upd(catRes, r, status)
        /\ IF Ok(status)
           THEN /\ pc' = Upd(pc, r, "old_cat_json")
                /\ UNCHANGED <<models, selVars, sent, trace>>
           ELSE OldSelectAndDispatch(r, <<AnswerEv(status, "")>>, Arr(<<>>))
    /\ UNCHANGED <<file, reqBody, catAttempt, catBody, genVars, armed, stale>>

\* part_000 30, 35-38: fetch rejected; getModels returns [].
OldCatFetchRejects(r) ==
    /\ pc[r] = "old_cat_fetch"
    /\ OldSelectAndDispatch(r, <<Ev("error")>>, Arr(<<>>))
    /\ UNCHANGED <<file, reqBody, catAttempt, catRes, catBody, genVars, armed, stale>>

\* part_000 32-34: data.models || [], or [] when res.json() rejected or
\* data is null.
OldGetModelsBody(b) ==
    LET data == JSONparse(b) IN
    IF ~data.ok \/ Nullish(data.val) THEN Arr(<<>>)
    ELSE OrElse(GetProp(data.val, W("models")), Arr(<<>>))

\* part_000 32-34, 49: the body of the 2xx catalog answer was read.
OldCatJsonFrom(r, bodies) ==
    /\ pc[r] = "old_cat_json"
    /\ \E b \in bodies :
        /\ catBody' = Upd(catBody, r, b)
        /\ OldSelectAndDispatch(r, <<AnswerEv(catRes[r], "models")>>, OldGetModelsBody(b))
    /\ UNCHANGED <<file, reqBody, catAttempt, catRes, genVars, armed, stale>>

OldCatJson(r) == OldCatJsonFrom(r, CatalogBodies)

\* part_000 80-86: fetch resolved with the status line.
OldGenFetchResolves(r) ==
    /\ pc[r] = "old_gen_fetch"
    /\ \E status \in GenStatuses : response' = Upd(response, r, status)
    /\ pc' = Upd(pc, r, "old_gen_text")
    /\ UNCHANGED <<file, reqBody, catVars, selVars, attempt, text, aiAnswer, sent, armed,
                   stale, trace>>

\* part_000 80, 86, 107-110: fetch or the body read rejected.
OldGenRejects(r) ==
    /\ pc[r] \in {"old_gen_fetch", "old_gen_text"}
    /\ Respond(r, <<Ev("error")>>, OldFailed)
    /\ UNCHANGED <<file, reqBody, catVars, selVars, genVars, armed, stale>>

\* part_000 86-106: the body was read.
OldGenTextFrom(r, bodies) ==
    /\ pc[r] = "old_gen_text"
    /\ \E t \in (IF Ok(response[r]) THEN bodies ELSE ErrorBodies) :
        /\ text' = Upd(text, r, t)
        /\ IF ~Ok(response[r])
           THEN /\ Respond(r, <<AnswerEv(response[r], "")>>,
                           ErrorResponse(response[r],
                                "Gemini API returned an error", Str(t)))
                /\ UNCHANGED aiAnswer
           ELSE /\ aiAnswer' = Upd(aiAnswer, r, ExtractAnswer(t))
                /\ Respond(r, <<AnswerEv(response[r], "")>>,
                           SuccessResponse(ExtractAnswer(t)))
    /\ UNCHANGED <<file, reqBody, catVars, selVars, attempt, response, armed, stale>>

OldGenText(r) == OldGenTextFrom(r, GenBodies)

----------------------------------------------------------------------------
(* The relay *)

Next ==
    \/ \E r \in DOMAIN pc : Analyze(r)
    \/ \E r \in DOMAIN pc : CatFetchResolves(r)
    \/ \E r \in DOMAIN pc : CatFetchRejects(r)
    \/ \E r \in DOMAIN pc : CatTimeout(r)
    \/ \E r \in DOMAIN pc : CatText(r)
    \/ \E r \in DOMAIN pc : CatJson(r)
    \/ \E r \in DOMAIN pc : CatBackoff(r)
    \/ \E r \in DOMAIN pc : GenFetchResolves(r)
    \/ \E r \in DOMAIN pc : GenFetchRejects(r)
    \/ \E r \in DOMAIN pc : GenTimeout(r)
    \/ \E r \in DOMAIN pc : GenText(r)
    \/ \E r \in DOMAIN pc : GenTextRejects(r)
    \/ \E r \in DOMAIN pc : GenBackoff(r)
    \/ \E r \in DOMAIN pc : StaleTimerFires(r)
    \/ \E r \in DOMAIN pc : OldAnalyze(r)
    \/ \E r \in DOMAIN pc : OldCatFetchResolves(r)
    \/ \E r \in DOMAIN pc : OldCatFetchRejects(r)
    \/ \E r \in DOMAIN pc : OldCatJson(r)
    \/ \E r \in DOMAIN pc : OldGenFetchResolves(r)
    \/ \E r \in DOMAIN pc : OldGenRejects(r)
    \/ \E r \in DOMAIN pc : OldGenText(r)

Spec == Init /\ [][Next]_vars

----------------------------------------------------------------------------
(* Model selection on every model list: the handler from the point where
   the body of a 2xx catalog answer is about to be read *)

ValidBody ==
    [userData |-> Obj(<<[k |-> W("age"), v |-> Num(5)]>>),
     exerciseData |-> Obj(<<[k |-> W("age"), v |-> Num(5)]>>)]

\* A valid request whose first catalog GET was answered 200.
InitSelect ==
    /\ file \in {"server.js", "part_000"}
    /\ pc = [r \in {1} |-> IF file = "server.js" THEN "cat_json" ELSE "old_cat_json"]
    /\ reqBody = [r \in {1} |-> ValidBody]
    /\ catAttempt = [r \in {1} |-> IF file = "server.js" THEN 1 ELSE 0]
    /\ catRes = [r \in {1} |-> 200]
    /\ catBody = [r \in {1} |-> <<>>]
    /\ models = [r \in {1} |-> Undef]
    /\ suitableModel = [r \in {1} |-> Undef]
    /\ methodName = [r \in {1} |-> ""]
    /\ promptText = [r \in {1} |-> NoPrompt]
    /\ attempt = [r \in {1} |-> 0]
    /\ response = [r \in {1} |-> 0]
    /\ text = [r \in {1} |-> <<>>]
    /\ aiAnswer = [r \in {1} |-> Str(W("No response from AI"))]
    /\ sent = [r \in {1} |-> <<>>]
    /\ armed = [r \in {1} |-> FALSE]
    /\ stale = [r \in {1} |-> 0]
    /\ trace = [r \in {1} |-> <<Ev("GET")>>]

NextSelect ==
    \/ \E r \in DOMAIN pc : CatJsonFrom(r, AllCatalogBodies)
    \/ \E r \in DOMAIN pc : OldCatJsonFrom(r, AllCatalogBodies)

SpecSelect == InitSelect /\ [][NextSelect]_vars

----------------------------------------------------------------------------
(* Response extraction on every body: the handler from the point where the
   body of a 2xx generation answer is about to be read *)

\* Longest run of lexemes between the optional "{" and "}" of a generated text.
MaxMid == 3

MidAlphabet ==
    { S(W("analysis")), S(W("other")), S(Tip), P(":"), P("{"), P("}") }

Mids == UNION {[1..n -> MidAlphabet] : n \in 0..MaxMid}

\* What surrounds the generated text: nothing, a json fence, prose.
Surrounds ==
    { [pre |-> <<>>, suf |-> <<>>],
      [pre |-> <<P("fence"), P("json"), P(" ")>>, suf |-> <<P(" "), P("fence")>>],
      [pre |-> <<P("x"), P(" ")>>, suf |-> <<P(" "), P("x")>>] }

\* Generated texts: prefix, optional "{", a run of lexemes, optional "}", suffix.
InnerTexts ==
    { w.pre \o open \o mid \o close \o w.suf :
        w \in Surrounds, open \in {<<>>, <<P("{")>>}, mid \in Mids,
        close \in {<<>>, <<P("}")>>} }

\* Bodies whose text path is absent, or holds no string, and bodies that
\* are JSON but no object.
OuterVariants ==
    { Wrap(P("5")), Wrap(P("0")), Wrap(P("null")), Wrap(P("true")),
      Wrap(S(AnalysisObject(P("0")))), Wrap(S(AnalysisObject(P("null")))),
      Wrap(S(AnalysisObject(P("false")))), Wrap(S(AnalysisObject(P("5")))),
      Wrap(S(<<>>)),
      <<P("["), P("]")>>,
      <<S(W("x"))>>,
      <<P("true")>>,
      <<P("0")>>,
      <<P("{"), S(W("candidates")), P(":"), P("null"), P("}")>>,
      <<P("{"), S(W("candidates")), P(":"), P("["), P("null"), P("]"), P("}")>>,
      <<P("{"), S(W("candidates")), P(":"), P("["), P("{"), P("}"), P("]"), P("}")>>,
      <<P("{"), S(W("candidates")), P(":"), P("["), P("{"), S(W("content")), P(":"),
        P("{"), S(W("parts")), P(":"), P("["), P("]"), P("}"), P("}"), P("]"), P("}")>> }

ExtractBodies == {Wrap(S(t)) : t \in InnerTexts} \cup OuterVariants \cup GenBodies

\* The one-model catalog the request went through.
OneModel == GetModelsBody(CatalogText(<<Kind(<<"generateContent">>)>>)).models

\* A valid request, a catalog of one GenerateContent model fetched at the
\* first attempt, the first generation POST answered 200.
InitExtract ==
    /\ file \in {"server.js", "part_000"}
    /\ pc = [r \in {1} |-> IF file = "server.js" THEN "gen_text" ELSE "old_gen_text"]
    /\ reqBody = [r \in {1} |-> ValidBody]
    /\ catAttempt = [r \in {1} |-> IF file = "server.js" THEN 1 ELSE 0]
    /\ catRes = [r \in {1} |-> 200]
    /\ catBody = [r \in {1} |-> CatalogText(<<Kind(<<"generateContent">>)>>)]
    /\ models = [r \in {1} |-> Arr(OneModel)]
    /\ suitableModel = [r \in {1} |-> OneModel[1]]
    /\ methodName = [r \in {1} |-> "generateContent"]
    /\ promptText = [r \in {1} |-> BuildPrompt(ValidBody)]
    /\ attempt = [r \in {1} |-> IF file = "server.js" THEN 1 ELSE 0]
    /\ response = [r \in {1} |-> 200]
    /\ text = [r \in {1} |-> <<>>]
    /\ aiAnswer = [r \in {1} |-> Str(W("No response from AI"))]
    /\ sent = [r \in {1} |-> <<>>]
    /\ armed = [r \in {1} |-> FALSE]
    /\ stale = [r \in {1} |-> 0]
    /\ trace = [r \in {1} |-> <<Ev("GET"), AnswerEv(200, "models"),
                    PostEv(ApiUrl(OneModel[1], "generateContent"), BuildPrompt(ValidBody))>>]

NextExtract ==
    \/ \E r \in DOMAIN pc : GenTextFrom(r, ExtractBodies)
    \/ \E r \in DOMAIN pc : OldGenTextFrom(r, ExtractBodies)

SpecExtract == InitExtract /\ [][NextExtract]_vars

----------------------------------------------------------------------------
(* Properties *)

Requests == DOMAIN pc

\* The upstream calls of request r so far.
Calls(r, op) == {i \in 1..Len(trace[r]) : trace[r][i].op = op}
Gets(r) == Calls(r, "GET")
Posts(r) == Calls(r, "POST")
Waits(r) == Calls(r, "wait")

ValidationError == ErrorResponse(400, "Missing userData or exerciseData", Undef)

\* A field of req.body is missing: absent or null.
Missing(v) == v.t \in {"undefined", "null"}

\* C1: a request whose userData or exerciseData is missing has ended with the
\* 400 validation response, its only response, and has issued no catalog GET
\* and no generation POST; this holds in every state from its arrival on.
C1_MissingInputRejectedWithoutCalls ==
    \A r \in Requests :
        (pc[r] # "idle" /\ (Missing(reqBody[r].userData) \/ Missing(reqBody[r].exerciseData)))
        => /\ pc[r] = "done"
           /\ sent[r] = <<ValidationError>>
           /\ Gets(r) = {}
           /\ Posts(r) = {}

\* A request with userData present and exerciseData missing was rejected.
C1_Witness ==
    \E r \in Requests :
        /\ pc[r] = "done"
        /\ ~Missing(reqBody[r].userData)
        /\ Missing(reqBody[r].exerciseData)
        /\ sent[r] = <<ValidationError>>

\* Positions in the trace of request r where an attempt ended.
Outcomes(r) == {i \in 1..Len(trace[r]) : trace[r][i].op \in {"answer", "timeout", "error"}}

\* The outcomes of generation attempts (after the first POST) and of catalog
\* attempts (before it).
GenOutcomes(r) == {i \in Outcomes(r) : \E p \in Posts(r) : p < i}
CatOutcomes(r) == Outcomes(r) \ GenOutcomes(r)

\* Every generation attempt of r so far was answered 503.
All503(r) ==
    \A i \in GenOutcomes(r) : trace[r][i].op = "answer" /\ trace[r][i].status = 503

\* C2: in server.js, while every generation attempt is answered 503, the
\* request goes on until the third answer and ends with it: once ended it has
\* sent, as its only response, status 503 with the body of the last attempt
\* as details, after exactly 3 POSTs (one first attempt and maxAttempts = 2
\* retries).
C2_Always503EndsAfterThreePosts ==
    \A r \in Requests :
        (file = "server.js" /\ Posts(r) # {} /\ All503(r))
        => /\ Cardinality(GenOutcomes(r)) <= 3
           /\ (pc[r] = "done") <=> (Cardinality(GenOutcomes(r)) = 3)
           /\ pc[r] = "done" =>
                /\ sent[r] = <<ErrorResponse(503, "Gemini API returned an error",
                                             Str(text[r]))>>
                /\ Cardinality(Posts(r)) = 3
                /\ Cardinality(Posts(r)) - 1 = maxAttempts

\* Three 503 answers in a row ended a server.js request.
C2_Witness ==
    \E r \in Requests :
        /\ file = "server.js"
        /\ pc[r] = "done"
        /\ Cardinality(GenOutcomes(r)) = 3
        /\ All503(r)
        /\ sent[r][1].status = 503

\* Descriptor m lists method among its supportedGenerationMethods.
Advertises(m, method) ==
    /\ m.t = "object"
    /\ \E i \in 1..Len(m.m) :
        /\ m.m[i].k = W("supportedGenerationMethods")
        /\ \A j \in (i + 1)..Len(m.m) : m.m[j].k # W("supportedGenerationMethods")
        /\ m.m[i].v.t = "array"
        /\ \E j \in 1..Len(m.m[i].v.e) : m.m[i].v.e[j] = Str(W(method))

Usable(m) == Advertises(m, "generateContent") \/ Advertises(m, "generateText")

\* Position i of list L holds its first usable descriptor.
FirstUsableAt(L, i) ==
    /\ i \in 1..Len(L)
    /\ Usable(L[i])
    /\ \A j \in 1..(i - 1) : ~Usable(L[j])

\* JSON values an "analysis" key may hold, as lexemes, and what they denote.
ValueLexemes == {S(Tip), S(<<>>), P("0"), P("5"), P("null"), P("false")}
ValueOf(v) ==
    CASE v.k = "str" -> Str(v.s)
      [] IsP(v, "0") -> Num(0)
      [] IsP(v, "5") -> Num(5)
      [] IsP(v, "null") -> Null
      [] OTHER -> Bool(FALSE)

\* A 2xx body whose text fragment is exactly {"analysis": v}.
CleanBody(v) == Wrap(S(AnalysisObject(v)))

\* The first catalog attempt of r was taken, its first usable model
\* supports GenerateContent, and the first generation attempt got a 2xx
\* answer with the clean body of v.
CleanRun(r, v) ==
    /\ Len(trace[r]) >= 4
    /\ trace[r][1].op = "GET"
    /\ trace[r][2] = AnswerEv(200, "models")
    /\ trace[r][3].op = "POST"
    /\ trace[r][4].op = "answer" /\ Ok(trace[r][4].status)
    /\ \E i \in 1..Len(models[r].e) :
        FirstUsableAt(models[r].e, i) /\ Advertises(models[r].e[i], "generateContent")
    /\ text[r] = CleanBody(v)

\* The request ended with {aiAnswer: a} after one GET, one POST, no wait.
EndedCleanly(r, a) ==
    /\ pc[r] = "done"
    /\ sent[r] = <<SuccessResponse(a)>>
    /\ Len(trace[r]) = 5 /\ trace[r][5].op = "respond"
    /\ Cardinality(Gets(r)) = 1
    /\ Cardinality(Posts(r)) = 1
    /\ Waits(r) = {}
    /\ trace[r][3].url.method = "generateContent"

\* C3 as stated: a first catalog attempt with a GenerateContent model and a
\* first generation attempt answered 2xx with a clean {"analysis": A} end the
\* request with {aiAnswer: A}, for every A, after one GET and one POST.
C3_AsStated ==
    \A r \in Requests : \A v \in ValueLexemes :
        (file = "server.js" /\ CleanRun(r, v)) => EndedCleanly(r, ValueOf(v))

\* What the code does on C3's runs: the same for every truthy A (a non-empty
\* string, a non-zero number); a falsy A ends the request as cleanly, the
\* answer being the cleaned text (the "||" of the extraction, see C8).
C3_CleanRunAnswersAnalysis ==
    \A r \in Requests : \A v \in ValueLexemes :
        CleanRun(r, v) =>
            EndedCleanly(r, IF Truthy(ValueOf(v)) THEN ValueOf(v)
                            ELSE Str(AnalysisObject(v)))

\* A server.js request ended cleanly with the advice as its answer.
C3_Witness ==
    \E r \in Requests :
        /\ file = "server.js"
        /\ CleanRun(r, S(Tip))
        /\ sent[r] = <<SuccessResponse(Str(Tip))>>

\* Body b deserializes to an object exposing an array-typed "models" field.
ArrayTyped(b) ==
    LET d == JSONparse(b) IN
    /\ d.ok
    /\ d.val.t = "object"
    /\ \E i \in 1..Len(d.val.m) : d.val.m[i].k = W("models")
    /\ GetProp(d.val, W("models")).t = "array"

\* The elements of that field.
ModelsOf(b) == GetProp(JSONparse(b).val, W("models")).e

ArrayTypedWithoutNull(b) ==
    ArrayTyped(b) /\ \A i \in 1..Len(ModelsOf(b)) : ModelsOf(b)[i].t # "null"

NoModelsAvailable == ErrorResponse(500, "No models available from Gemini API", Undef)

\* getModels of server.js, with accepted(b) telling which 2xx bodies it takes:
\* it never throws into the handler; a 2xx attempt is taken exactly when its
\* body is accepted, and then its models array is what getModels returns and
\* no GET follows; every attempt not taken is followed by a wait and the next
\* GET while fewer than retries + 1 attempts were made, and the attempt
\* number retries + 1 by the return of the empty sequence.
CatalogFetchContract(r, accepted(_)) ==
    /\ \A i \in 1..Len(sent[r]) : sent[r][i].error # "Failed to analyze data"
    /\ Cardinality(CatOutcomes(r)) <= retries + 1
    /\ \A i \in CatOutcomes(r) :
        LET e == trace[r][i]
            k == Cardinality({j \in CatOutcomes(r) : j <= i})
            taken == e.op = "answer" /\ Ok(e.status) /\ e.note = "models"
        IN
        /\ (i = Max(CatOutcomes(r)) /\ e.op = "answer" /\ Ok(e.status))
            => (taken <=> accepted(catBody[r]))
        /\ taken =>
            /\ i = Max(CatOutcomes(r))
            /\ models[r] = Arr(ModelsOf(catBody[r]))
            /\ \A g \in Gets(r) : g < i
        /\ (~taken /\ k <= retries) =>
            /\ trace[r][i + 1].op = "wait"
            /\ Len(trace[r]) >= i + 2 => trace[r][i + 2].op = "GET"
            /\ Len(trace[r]) = i + 1 => pc[r] = "cat_backoff"
        /\ (~taken /\ k = retries + 1) =>
            /\ trace[r][i + 1].op = "respond"
            /\ models[r] = Arr(<<>>)
            /\ sent[r] = <<NoModelsAvailable>>

\* C4 as stated: getModels takes the first 2xx attempt whose body exposes an
\* array-typed "models" field.
C4_AsStated ==
    \A r \in Requests : file = "server.js" => CatalogFetchContract(r, ArrayTyped)

\* What the code does on C4's runs: getModels takes the first 2xx attempt
\* whose body exposes an array-typed "models" field with no null element
\* (the log of the names reads every element and throws inside the try); a
\* 2xx array with a null element is a failed attempt like the others.
C4_GetModelsNeverThrows ==
    \A r \in Requests : file = "server.js" => CatalogFetchContract(r, ArrayTypedWithoutNull)

\* getModels returned a non-empty list at its second attempt, after a first
\* attempt whose 2xx body was not taken.
C4_Witness ==
    \E r \in Requests :
        /\ file = "server.js"
        /\ Cardinality(CatOutcomes(r)) = 2
        /\ trace[r][2] = AnswerEv(200, "invalid")
        /\ trace[r][Max(CatOutcomes(r))] = AnswerEv(200, "models")
        /\ Len(models[r].e) > 0

\* Selection has run for request r on a catalog list of descriptors.
Selected(r) ==
    /\ pc[r] \notin {"idle", "cat_fetch", "cat_text", "cat_json", "cat_backoff",
                     "old_cat_fetch", "old_cat_json"}
    /\ ArrayTypedWithoutNull(catBody[r])

\* Request r goes on with descriptor m and method: they are the handler's
\* suitableModel and methodName, and the one POST so far is addressed to them.
Chose(r, m, method) ==
    /\ suitableModel[r] = m
    /\ methodName[r] = method
    /\ \E p \in Posts(r) : trace[r][p].url = ApiUrl(m, method)

\* C5 as stated: on every model list with a descriptor supporting
\* GenerateContent, selection returns the first descriptor supporting
\* GenerateContent, with method GenerateContent.
C5_AsStated ==
    \A r \in Requests : Selected(r) =>
        LET L == ModelsOf(catBody[r]) IN
        \A i \in 1..Len(L) :
            (/\ Advertises(L[i], "generateContent")
             /\ \A j \in 1..(i - 1) : ~Advertises(L[j], "generateContent"))
            => Chose(r, L[i], "generateContent")

\* C5 amended: on every model list whose first usable descriptor (the first
\* one supporting GenerateContent or GenerateText) supports GenerateContent,
\* selection returns that descriptor with method GenerateContent.
C5_FirstUsableWithGenerateContent ==
    \A r \in Requests : Selected(r) =>
        LET L == ModelsOf(catBody[r]) IN
        \A i \in 1..Len(L) :
            (FirstUsableAt(L, i) /\ Advertises(L[i], "generateContent"))
            => Chose(r, L[i], "generateContent")

\* A GenerateContent descriptor was selected from behind an unusable one.
C5_Witness ==
    \E r \in Requests :
        /\ Selected(r)
        /\ Len(ModelsOf(catBody[r])) = 2
        /\ FirstUsableAt(ModelsOf(catBody[r]), 2)
        /\ Chose(r, ModelsOf(catBody[r])[2], "generateContent")

\* The handler's answer when selection returns nothing.
NoneSelected(r) ==
    /\ suitableModel[r] = Undef
    /\ methodName[r] = ""
    /\ Posts(r) = {}
    /\ pc[r] = "done"
    /\ sent[r] \in
        { <<ErrorResponse(500, "No suitable Gemini model found", Undef)>>,
          <<NoModelsAvailable>> }
    /\ sent[r] = <<NoModelsAvailable>>
        <=> (file = "server.js" /\ ModelsOf(catBody[r]) = <<>>)

\* C6: on every model list, selection returns the first descriptor in
\* catalog order that advertises GenerateContent or GenerateText, with
\* method GenerateContent if that descriptor advertises it and GenerateText
\* otherwise, so the method is one the descriptor advertises; it returns
\* nothing exactly when the list is empty or no descriptor advertises
\* either method.
C6_FirstUsableDescriptorSelected ==
    \A r \in Requests : Selected(r) =>
        LET L == ModelsOf(catBody[r]) IN
        /\ \A i \in 1..Len(L) : FirstUsableAt(L, i) =>
            /\ Chose(r, L[i], IF Advertises(L[i], "generateContent")
                              THEN "generateContent" ELSE "generateText")
            /\ Advertises(suitableModel[r], methodName[r])
        /\ NoneSelected(r) <=> \A i \in 1..Len(L) : ~Usable(L[i])

\* A descriptor advertising GenerateText only was selected, with method
\* GenerateText, from behind an unusable one.
C6_Witness ==
    \E r \in Requests :
        /\ Selected(r)
        /\ Len(ModelsOf(catBody[r])) = 2
        /\ FirstUsableAt(ModelsOf(catBody[r]), 2)
        /\ ~Advertises(ModelsOf(catBody[r])[2], "generateContent")
        /\ Chose(r, ModelsOf(catBody[r])[2], "generateText")

\* The last generation attempt of request r was answered 2xx, its body
\* text[r] went through extraction and the handler responded.
Extracted(r) ==
    /\ pc[r] = "done"
    /\ Len(trace[r]) >= 2
    /\ Len(trace[r]) - 1 \in GenOutcomes(r)
    /\ trace[r][Len(trace[r]) - 1].op = "answer"
    /\ Ok(trace[r][Len(trace[r]) - 1].status)

\* Request r answered 200 {aiAnswer: v}.
Returned(r, v) == sent[r] = <<SuccessResponse(v)>> /\ aiAnswer[r] = v

\* Body b is JSON, not null, and its text fragment (the text at the nested
\* path, "" when there is none) is a string: b has a cleaned text.
HasCleaned(b) ==
    /\ JSONparse(b).ok
    /\ JSONparse(b).val.t # "null"
    /\ RawText(JSONparse(b).val).t = "string"

\* The fence-stripped, trimmed text fragment of b.
CleanedOf(b) == Cleaned(RawText(JSONparse(b).val).s)

\* The cleaned text of b has a "{" ... "}" substring that is no valid JSON.
MalformedInner(b) ==
    /\ HasCleaned(b)
    /\ HasJsonMatch(CleanedOf(b))
    /\ ~JSONparse(JsonMatch(CleanedOf(b))).ok

\* C7 as stated: when the "{" ... "}" substring of the cleaned text is no
\* valid JSON, extraction returns the cleaned text.
C7_AsStated ==
    \A r \in Requests : (Extracted(r) /\ MalformedInner(text[r]))
        => Returned(r, Str(CleanedOf(text[r])))

\* C7 amended: when the "{" ... "}" substring of the cleaned text is no
\* valid JSON, extraction returns the raw response body unchanged (the
\* catch around both parses), not the cleaned text and not an error.
C7_MalformedInnerReturnsRawBody ==
    \A r \in Requests : (Extracted(r) /\ MalformedInner(text[r]))
        => Returned(r, Str(text[r]))

\* A fenced text with a malformed object inside went through extraction.
C7_Witness ==
    \E r \in Requests :
        /\ Extracted(r)
        /\ MalformedInner(text[r])
        /\ CleanedOf(text[r]) # RawText(JSONparse(text[r]).val).s
        /\ Returned(r, Str(text[r]))

\* The "{" ... "}" substring of the cleaned text of b is valid JSON.
WellFormedInner(b) ==
    /\ HasCleaned(b)
    /\ HasJsonMatch(CleanedOf(b))
    /\ JSONparse(JsonMatch(CleanedOf(b))).ok

InnerOf(b) == JSONparse(JsonMatch(CleanedOf(b))).val

HasKey(o, key) == o.t = "object" /\ \E i \in 1..Len(o.m) : o.m[i].k = key

\* C8 as stated: when the JSON-object substring of the cleaned text parses and has an
\* "analysis" key, extraction returns the value of that key, whatever it is.
C8_AnalysisValueReturned ==
    \A r \in Requests :
        (/\ Extracted(r)
         /\ WellFormedInner(text[r])
         /\ HasKey(InnerOf(text[r]), W("analysis")))
        => Returned(r, GetProp(InnerOf(text[r]), W("analysis")))

\* Body b is JSON and its value is an object.
ParsesAsObject(b) == JSONparse(b).ok /\ JSONparse(b).val.t = "object"

\* Body b is JSON, not null, and holds nothing at the nested text path.
PathAbsent(b) ==
    /\ JSONparse(b).ok
    /\ JSONparse(b).val.t # "null"
    /\ TextPath(JSONparse(b).val) = Undef

\* The fallbacks C9 shares with the code: no text at the nested path gives
\* the empty fragment, hence the empty answer; a cleaned text without a
\* "{" ... "}" substring is returned as it is; so is one whose substring
\* parses but has no "analysis" key.
LaterFallbacks(r) ==
    /\ PathAbsent(text[r]) => Returned(r, Str(<<>>))
    /\ (HasCleaned(text[r]) /\ ~HasJsonMatch(CleanedOf(text[r])))
        => Returned(r, Str(CleanedOf(text[r])))
    /\ (WellFormedInner(text[r]) /\ ~HasKey(InnerOf(text[r]), W("analysis")))
        => Returned(r, Str(CleanedOf(text[r])))

\* C9 as stated: a body that does not parse as an object is returned
\* unchanged; then the later fallbacks.
C9_AsStated ==
    \A r \in Requests : Extracted(r) =>
        /\ ~ParsesAsObject(text[r]) => Returned(r, Str(text[r]))
        /\ ParsesAsObject(text[r]) => LaterFallbacks(r)

\* C9 amended: a body that is no JSON at all, or is JSON null, is returned
\* unchanged; a body that is JSON but no object (a number, a string, a
\* boolean, an array) has no nested text path and is treated like an object
\* without it: the fragment is the empty string; then the later fallbacks
\* as stated.
C9_FallbackChain ==
    \A r \in Requests : Extracted(r) =>
        /\ (~JSONparse(text[r]).ok \/ JSONparse(text[r]).val.t = "null")
            => Returned(r, Str(text[r]))
        /\ (JSONparse(text[r]).ok /\ JSONparse(text[r]).val.t \notin {"null", "object"})
            => PathAbsent(text[r])
        /\ LaterFallbacks(r)

\* A body that is JSON but no object went through extraction and the
\* answer is the empty string.
C9_Witness ==
    \E r \in Requests :
        /\ Extracted(r)
        /\ JSONparse(text[r]).ok
        /\ JSONparse(text[r]).val.t = "array"
        /\ Returned(r, Str(<<>>))

\* C10: whenever the body of a 2xx generation response has been read, the
\* request ends at that attempt with the success response {aiAnswer: ...}
\* whatever the body holds: no error response, no wait, no further POST.
C10_SuccessOn2xx ==
    \A r \in Requests : \A i \in GenOutcomes(r) :
        (trace[r][i].op = "answer" /\ Ok(trace[r][i].status)) =>
            /\ Len(trace[r]) = i + 1
            /\ trace[r][i + 1].op = "respond"
            /\ pc[r] = "done"
            /\ sent[r] = <<SuccessResponse(aiAnswer[r])>>
            /\ sent[r][1].status = 200
            /\ \A j \in Posts(r) \cup Waits(r) : j < i

\* A 2xx body that is no JSON ended the request with a success response at
\* the second attempt.
C10_Witness ==
    \E r \in Requests :
        /\ Extracted(r)
        /\ ~JSONparse(text[r]).ok
        /\ Cardinality(Posts(r)) = 2
        /\ sent[r] = <<SuccessResponse(Str(text[r]))>>

\* The outcome of the last generation attempt of request r so far.
LastGen(r) == trace[r][Max(GenOutcomes(r))]

\* The generation of request r ended in a failure.
GenFailed(r) ==
    /\ pc[r] = "done"
    /\ GenOutcomes(r) # {}
    /\ ~(LastGen(r).op = "answer" /\ Ok(LastGen(r).status))

UpstreamError(status, body) ==
    ErrorResponse(status, "Gemini API returned an error", Str(body))

FailedAfterRetries(err) ==
    ErrorResponse(504, "Gemini API request failed after retries", err.message)

\* C11: a generation that ends in a failure has made maxAttempts + 1
\* attempts, whatever mix of non-2xx statuses, timeouts and transport errors
\* they ended in (one counter for all), and the response is decided by the
\* last attempt alone: non-2xx status s with body b gives UpstreamError with
\* status s and details b, a timeout gives the 504 response.
C11_FinalAttemptDecidesFailure ==
    \A r \in Requests : (file = "server.js" /\ GenFailed(r)) =>
        /\ Cardinality(GenOutcomes(r)) = maxAttempts + 1
        /\ Cardinality(Posts(r)) = maxAttempts + 1
        /\ LastGen(r).op = "answer"
            => sent[r] = <<UpstreamError(LastGen(r).status, text[r])>>
        /\ LastGen(r).op = "timeout"
            => sent[r] = <<FailedAfterRetries(AbortError)>>

\* A non-2xx answer, then a transport error, then a timeout: the request
\* ended with the 504 response.
C11_Witness ==
    \E r \in Requests :
        /\ file = "server.js"
        /\ GenFailed(r)
        /\ \E i, j, k \in GenOutcomes(r) :
            /\ i < j /\ j < k
            /\ trace[r][i].op = "answer"
            /\ trace[r][j].op = "error"
            /\ trace[r][k].op = "timeout"
        /\ sent[r] = <<FailedAfterRetries(AbortError)>>

NoSuitableModel == ErrorResponse(500, "No suitable Gemini model found", Undef)

\* C13: within a request every catalog GET precedes every generation POST;
\* the first POST follows at once the catalog answer getModels returned,
\* and is addressed, like every later one, to a usable model of that
\* catalog with a method it advertises; a request that answered
\* NoModelsAvailable or NoSuitableModel has issued no POST and its one
\* response carries no answer.
C13_PipelineOrdered ==
    \A r \in Requests :
        /\ \A g \in Gets(r) : \A p \in Posts(r) : g < p
        /\ Posts(r) # {} =>
            /\ Min(Posts(r)) > 1
            /\ trace[r][Min(Posts(r)) - 1].op = "answer"
            /\ trace[r][Min(Posts(r)) - 1].note = "models"
            /\ Ok(trace[r][Min(Posts(r)) - 1].status)
            /\ models[r].t = "array"
            /\ \E i \in 1..Len(models[r].e) : models[r].e[i] = suitableModel[r]
            /\ Usable(suitableModel[r])
            /\ Advertises(suitableModel[r], methodName[r])
            /\ \A p \in Posts(r) : trace[r][p].url = ApiUrl(suitableModel[r], methodName[r])
        /\ (\E i \in 1..Len(sent[r]) : sent[r][i] \in {NoModelsAvailable, NoSuitableModel}) =>
            /\ Posts(r) = {}
            /\ Len(sent[r]) = 1
            /\ sent[r][1].aiAnswer = Undef
            /\ aiAnswer[r] = Str(W("No response from AI"))
            /\ pc[r] = "done"

\* A request went through two catalog GETs and two generation POSTs.
C13_Witness ==
    \E r \in Requests :
        /\ Cardinality(Gets(r)) = 2
        /\ Cardinality(Posts(r)) = 2
        /\ pc[r] = "done"

\* Every catalog attempt of r so far ended as a failed one.
AllCatalogAttemptsFailed(r) ==
    \A i \in CatOutcomes(r) :
        ~(trace[r][i].op = "answer" /\ Ok(trace[r][i].status) /\ trace[r][i].note = "models")

CatalogExhausted(r) ==
    /\ Cardinality(Gets(r)) = retries + 1
    /\ Cardinality(CatOutcomes(r)) = retries + 1
    /\ AllCatalogAttemptsFailed(r)

\* C14 as stated: NoModelsAvailable is answered only after retries + 1
\* catalog attempts that all failed.
C14_AsStated ==
    \A r \in Requests : sent[r] = <<NoModelsAvailable>> => CatalogExhausted(r)

\* C14 amended: NoModelsAvailable is answered only when getModels returned
\* the empty sequence: after retries + 1 catalog attempts that all failed
\* (non-2xx status, timeout, transport error, a 2xx body getModels did not
\* take), or right after an attempt answered 2xx with an empty "models"
\* array, whatever its number; it is answered in every such case.
C14_NoModelsOnlyOnEmptyCatalog ==
    \A r \in Requests : file = "server.js" =>
        LET emptyList ==
                /\ CatOutcomes(r) # {}
                /\ trace[r][Max(CatOutcomes(r))].op = "answer"
                /\ trace[r][Max(CatOutcomes(r))].note = "models"
                /\ ArrayTyped(catBody[r])
                /\ ModelsOf(catBody[r]) = <<>>
        IN
        /\ sent[r] = <<NoModelsAvailable>> <=> (CatalogExhausted(r) \/ emptyList)
        /\ sent[r] = <<NoModelsAvailable>> => models[r] = Arr(<<>>)
        /\ ~(CatalogExhausted(r) /\ emptyList)

\* NoModelsAvailable after three failed catalog attempts of three kinds.
C14_Witness ==
    \E r \in Requests :
        /\ sent[r] = <<NoModelsAvailable>>
        /\ CatalogExhausted(r)
        /\ {trace[r][i].op : i \in CatOutcomes(r)} = {"answer", "timeout", "error"}

\* An attempt of request r is in flight: its call is issued and its
\* response body is not yet read.
InFlight(r) == pc[r] \in {"cat_fetch", "cat_text", "cat_json", "gen_fetch", "gen_text"}

\* C15: in server.js the timeout timer of an attempt is armed for as long
\* as the attempt is in flight, from the call to the end of the body read.
C15_TimerArmedWhileInFlight ==
    \A r \in Requests : (file = "server.js" /\ InFlight(r)) => armed[r]

\* C16: all generation POSTs of a request carry the same model, method and
\* prompt, the ones fixed before the first POST and still held by the
\* handler; no catalog GET follows a POST and every POST but the first
\* follows a backoff wait at once, with no selection in between.
C16_SameModelMethodPrompt ==
    \A r \in Requests : \A p \in Posts(r) :
        /\ trace[r][p].url = ApiUrl(suitableModel[r], methodName[r])
        /\ trace[r][p].body = promptText[r]
        /\ trace[r][p].body = BuildPrompt(reqBody[r])
        /\ trace[r][p] = trace[r][Min(Posts(r))]
        /\ \A g \in Gets(r) : g < p
        /\ p # Min(Posts(r)) => trace[r][p - 1].op = "wait"

\* Three POSTs to a model selected with GenerateText.
C16_Witness ==
    \E r \in Requests :
        /\ Cardinality(Posts(r)) = 3
        /\ methodName[r] = "generateText"
        /\ pc[r] = "done"

\* C18: a request that has ended has sent exactly one response, and a
\* request that has not ended has sent none; the response is the last
\* thing in its trace, so no call and no wait was started after it.
C18_ExactlyOneResponse ==
    \A r \in Requests :
        /\ Len(sent[r]) <= 1
        /\ pc[r] = "done" <=> Len(sent[r]) = 1
        /\ Cardinality(Calls(r, "respond")) = Len(sent[r])
        /\ \A i \in Calls(r, "respond") : i = Len(trace[r])

\* A request ended with its one response after six failed attempts.
C18_Witness ==
    \E r \in Requests :
        /\ pc[r] = "done"
        /\ Len(sent[r]) = 1
        /\ Cardinality(Outcomes(r)) = 6

\* C19: when a server.js request has sent its response, none of the
\* timeout timers it armed is still pending.
C19_NoTimerPendingAtResponse ==
    \A r \in Requests :
        (file = "server.js" /\ pc[r] = "done") => (~armed[r] /\ stale[r] = 0)

\* C20: at most 3 catalog GETs and 3 generation POSTs per request; a
\* backoff wait follows an attempt that was neither successful (its loop
\* returned from it) nor the last of its loop, and is followed by the next
\* call of the same loop (GET after a catalog attempt, POST after a
\* generation attempt); the last attempt of a loop and a successful one are
\* followed by no wait.
C20_CallsBoundedWaitsBetweenAttempts ==
    \A r \in Requests :
        /\ retries + 1 = 3 /\ maxAttempts + 1 = 3
        /\ Cardinality(Gets(r)) <= 3
        /\ Cardinality(Posts(r)) <= 3
        /\ \A w \in Waits(r) :
            /\ w - 1 \in Outcomes(r)
            /\ ~(trace[r][w - 1].op = "answer" /\ Ok(trace[r][w - 1].status)
                 /\ trace[r][w - 1].note # "invalid")
            /\ Len(trace[r]) > w =>
                trace[r][w + 1].op = (IF w - 1 \in CatOutcomes(r) THEN "GET" ELSE "POST")
            /\ Len(trace[r]) = w =>
                pc[r] = (IF w - 1 \in CatOutcomes(r) THEN "cat_backoff" ELSE "gen_backoff")
        /\ \A i \in Outcomes(r) :
            (\/ (i \in CatOutcomes(r) /\ Cardinality({j \in CatOutcomes(r) : j <= i}) = 3)
             \/ (i \in GenOutcomes(r) /\ Cardinality({j \in GenOutcomes(r) : j <= i}) = 3)
             \/ (trace[r][i].op = "answer" /\ Ok(trace[r][i].status)
                 /\ trace[r][i].note # "invalid"))
            => i + 1 \notin Waits(r)

\* Two waits in each loop: three GETs and three POSTs in one request.
C20_Witness ==
    \E r \in Requests :
        /\ Cardinality(Gets(r)) = 3
        /\ Cardinality(Posts(r)) = 3
        /\ Cardinality(Waits(r)) = 4
        /\ pc[r] = "done"

----------------------------------------------------------------------------
(* Two concurrent requests to server.js *)

\* The upstream the two requests are run against: a catalog that answers
\* 200 with one usable model, one unusable model or no model, or times out
\* once; a generation endpoint that answers 200 with a clean analysis or 503,
\* times out, or fails at the transport, at any attempt.
TwoCatalogBodies ==
    { CatalogText(<<Kind(<<"generateContent">>)>>),
      CatalogText(<<Kind(<<"embedContent">>)>>),
      CatalogText(<<>>) }
TwoGenBodies == { Wrap(S(AnalysisObject(S(Tip)))), <<P("x")>> }
TwoInputs == { ValidBody, [userData |-> Undef, exerciseData |-> ValidBody.exerciseData] }

Upstream2 ==
    \A r \in DOMAIN pc :
        /\ reqBody[r] \in TwoInputs \cup {NoPrompt}
        /\ catRes[r] \in {0, 200}
        /\ catBody[r] \in TwoCatalogBodies \cup {<<>>}
        /\ pc[r] = "cat_backoff" => catAttempt[r] = 1
        /\ response[r] \in {0, 200, 503}
        /\ text[r] \in TwoGenBodies \cup {<<>>}

Init2 ==
    /\ file = "server.js"
    /\ InitRequests({1, 2})

Next2 ==
    \/ \E r \in DOMAIN pc : Analyze(r) /\ Upstream2'
    \/ \E r \in DOMAIN pc : CatFetchResolves(r) /\ Upstream2'
    \/ \E r \in DOMAIN pc : CatTimeout(r) /\ Upstream2'
    \/ \E r \in DOMAIN pc : CatJson(r) /\ Upstream2'
    \/ \E r \in DOMAIN pc : CatBackoff(r) /\ Upstream2'
    \/ \E r \in DOMAIN pc : GenFetchResolves(r) /\ Upstream2'
    \/ \E r \in DOMAIN pc : GenFetchRejects(r) /\ Upstream2'
    \/ \E r \in DOMAIN pc : GenTimeout(r) /\ Upstream2'
    \/ \E r \in DOMAIN pc : GenText(r) /\ Upstream2'
    \/ \E r \in DOMAIN pc : GenBackoff(r) /\ Upstream2'

Spec2 == Init2 /\ [][Next2]_vars

----------------------------------------------------------------------------
(* C17: concurrent requests are isolated *)

\* Everything one request holds: its input, its counters, its chosen model
\* and method, its prompt, its pending answer, its timers, its response.
Local(r) ==
    <<pc[r], reqBody[r], catAttempt[r], catRes[r], catBody[r], models[r],
      suitableModel[r], methodName[r], promptText[r], attempt[r], response[r],
      text[r], aiAnswer[r], sent[r], armed[r], stale[r], trace[r]>>

IsOutcome(e) == e.op \in {"answer", "timeout", "error"}

\* What one request was given: its input and what the upstream did to it.
Given(r) == <<reqBody[r], SelectSeq(trace[r], IsOutcome), catBody[r], text[r]>>

\* What one request made of it.
Made(r) ==
    <<sent[r], trace[r], catAttempt[r], attempt[r], suitableModel[r], methodName[r],
      promptText[r], aiAnswer[r]>>

OneRequestPerStep ==
    \A r1, r2 \in Requests :
        r1 # r2 => (Local(r1)' = Local(r1) \/ Local(r2)' = Local(r2))

DependsOnOwnOnly ==
    \A r1, r2 \in Requests :
        (pc[r1] = "done" /\ pc[r2] = "done" /\ Given(r1) = Given(r2))
            => Made(r1) = Made(r2)

\* C17: two requests in progress at once affect each other in no way: a step
\* of one leaves everything the other holds (counters, chosen model, prompt,
\* timers, response) as it was, and what a finished request made (response,
\* calls, counters, model, method) is determined by its own input and its own
\* upstream outcomes alone.
C17_RequestsIsolated == []DependsOnOwnOnly /\ [][OneRequestPerStep]_vars

\* One request used all three generation attempts and failed while the other
\* succeeded at its first.
C17_Witness ==
    /\ pc[1] = "done" /\ pc[2] = "done"
    /\ attempt[1] = maxAttempts + 1 /\ attempt[2] = 1
    /\ Len(sent[1]) = 1 /\ sent[1][1].status = 504
    /\ Len(sent[2]) = 1 /\ sent[2][1].status = 200
    /\ catAttempt[1] # catAttempt[2]

----------------------------------------------------------------------------
(* C12: the failure categories in the response *)

\* The situation a finished request ended in, read off what happened to it.
Category(r) ==
    IF Gets(r) = {} THEN "ValidationError"
    ELSE IF Posts(r) = {}
         THEN (IF models[r] = Arr(<<>>) THEN "NoModelsAvailable" ELSE "NoSuitableModel")
    ELSE IF LastGen(r).op = "timeout" THEN "Timeout"
    ELSE IF LastGen(r).op = "error" THEN "TransportError"
    ELSE IF Ok(LastGen(r).status) THEN "Success"
    ELSE "UpstreamError"

\* The category the caller can read in the response: its status and its
\* error text.
Shown(r) == <<sent[r][1].status, sent[r][1].error>>

Ended(r) == pc[r] = "done" /\ Len(sent[r]) = 1

MergedFailure == {"Timeout", "TransportError"}

====
